---- MODULE Spec2Model ----
(***************************************************************************)
(* Model of src/data_processing.py: the DailyMetric estimator hierarchy,   *)
(* DailyMetricCollection (constructor, _get_data_around, _find_index,      *)
(* _interpolate, _extrapolate) and the generator DailyMetricCollection.get.*)
(*                                                                         *)
(* Dates are integers (day numbers); a timedelta of k days is the integer  *)
(* k.  Numeric values are exact rationals <<num, den>> in lowest terms     *)
(* with den > 0; the least-squares line of sklearn's LinearRegression is   *)
(* computed exactly (the float64 rounding error of the library is not      *)
(* modelled).  Python lists are sequences; the code's 0-based index i is   *)
(* the sequence position i + 1 (operator At).                              *)
(*                                                                         *)
(* A generator object is a frame: Call creates it without running any of   *)
(* get's body, Pull is one next() on it and runs the body up to the next   *)
(* yield, to the end of the loop, or to the exception that leaves it.      *)
(***************************************************************************)
EXTENDS Integers, Sequences, FiniteSets, TLC

VARIABLES pending, phase, metrics, int_outputs, gens, given, feed, direct,
          lookup, search

vars ==
    <<pending, phase, metrics, int_outputs, gens, given, feed, direct, lookup,
      search>>

(***************************************************************************)
(* Bounds of the model.                                                    *)
(***************************************************************************)
\* sample dates are drawn from 0 .. MaxDay
MaxDay == 4
\* at most one sample of a drawn list has a value other than 0, and that
\* value is in 1 .. MaxValue
MaxValue == 1

Dates == 0 .. MaxDay
\* start and end of a requested range: one day before / after the sample dates
QueryDays == -1 .. (MaxDay + 1)

\* the generator objects of the model
Gens == {"a", "b"}
\* generate_metrics is given lists of at most MaxItems tweets
MaxItems == 3
\* the days and the hours of the tweets' time stamps
FeedDays == {0, 1}
Hours == {9, 21}
\* the codes of the drawn location tables are made of the first MaxLetter
\* letters
MaxLetter == 2

(***************************************************************************)
(* Exact rational arithmetic.                                              *)
(***************************************************************************)
Abs(x) == IF x < 0 THEN -x ELSE x

RECURSIVE Gcd(_, _)
Gcd(a, b) == IF b = 0 THEN a ELSE Gcd(b, a % b)

\* the rational n / d, d # 0, in lowest terms with a positive denominator
Frac(n, d) ==
    LET g == Gcd(Abs(n), Abs(d))
        s == IF d < 0 THEN -1 ELSE 1
    IN  <<(s * n) \div g, (s * d) \div g>>

IntVal(v) == <<v, 1>>

\* largest integer <= q[1] / q[2]  (q[2] > 0)
Floor(q) == q[1] \div q[2]

\* round-half-away-from-zero, the rule a C-style round() would apply
RoundHalfAway(q) ==
    LET f == Floor(q)
        r == q[1] - f * q[2]
    IN  IF 2 * r < q[2] THEN f
        ELSE IF 2 * r > q[2] THEN f + 1
        ELSE IF q[1] >= 0 THEN f + 1 ELSE f

\* Python 3 round(x) with one argument (and numpy.float64.__round__):
\* nearest integer, a tie goes to the even neighbour
Round(q) ==
    LET f == Floor(q)
        r == q[1] - f * q[2]
    IN  IF 2 * r < q[2] THEN f
        ELSE IF 2 * r > q[2] THEN f + 1
        ELSE IF f % 2 = 0 THEN f ELSE f + 1

(***************************************************************************)
(* Lists of SingleDateMetric.                                              *)
(***************************************************************************)
\* SingleDateMetric(date, value)
SingleDateMetric(d, v) == [date |-> d, value |-> v]

\* i is an index a Python list of this length accepts (negative ones count
\* from the end); any other raises IndexError
InRange(m, i) == -Len(m) <= i /\ i < Len(m)

\* self._metrics[i] for an accepted index i
At(m, i) == IF i < 0 THEN m[Len(m) + i + 1] ELSE m[i + 1]

RECURSIVE InsertByDate(_, _)
\* position of x in a stable sort: behind every element whose date is <= x.date
InsertByDate(s, x) ==
    IF s = <<>> THEN <<x>>
    ELSE IF s[Len(s)].date <= x.date THEN Append(s, x)
    ELSE Append(InsertByDate(SubSeq(s, 1, Len(s) - 1), x), s[Len(s)])

\* sorted(data, key=lambda x: x.date) left out: the list as the caller gave it
KeepOrder(data) == data

RECURSIVE SortByDate(_)
\* sorted(data, key=lambda a: a.date)
SortByDate(data) ==
    IF data = <<>> THEN <<>>
    ELSE InsertByDate(SortByDate(SubSeq(data, 1, Len(data) - 1)), data[Len(data)])

(***************************************************************************)
(* LinearMetric: a least-squares line through a window of samples.         *)
(***************************************************************************)
\* a distance in days that has lost its sign
AbsConvertDate(base_date, date) == Abs(date - base_date)

\* LinearMetric._convert_date: whole days from the base date (may be negative)
ConvertDate(base_date, date) == date - base_date

RECURSIVE SumSeq(_)
SumSeq(s) == IF s = <<>> THEN 0 ELSE s[1] + SumSeq(Tail(s))

\* LinearMetric._generate_data: the x values (day offsets) and the y values
XList(data) == [k \in 1 .. Len(data) |-> ConvertDate(data[1].date, data[k].date)]
YList(data) == [k \in 1 .. Len(data) |-> data[k].value]

\* LinearRegression().fit(x_data, y_data): the sums that determine the
\* ordinary-least-squares line  y = ybar + slope * (x - xbar)
Fit(data) ==
    LET xs == XList(data)
        ys == YList(data)
    IN  [n   |-> Len(data),
         sx  |-> SumSeq(xs),
         sy  |-> SumSeq(ys),
         sxx |-> SumSeq([k \in 1 .. Len(data) |-> xs[k] * xs[k]]),
         sxy |-> SumSeq([k \in 1 .. Len(data) |-> xs[k] * ys[k]])]

\* LinearRegression.predict at offset x.  With a single distinct offset the
\* least-squares solution of minimum norm has slope 0 (the mean of y).
Predict(reg, x) ==
    LET d == reg.n * reg.sxx - reg.sx * reg.sx
    IN  IF d = 0 THEN Frac(reg.sy, reg.n)
        ELSE Frac(reg.sy * d + (reg.n * reg.sxy - reg.sx * reg.sy) * (reg.n * x - reg.sx),
                  reg.n * d)

(***************************************************************************)
(* The estimators (DailyMetric and its subclasses).  One record shape for  *)
(* all: kind, index (the index the collection built it around), data (the  *)
(* fitted window, or the one stored sample), the date bounds, end flag.    *)
(***************************************************************************)
NoMetric ==
    [kind |-> "None", index |-> 0, data |-> <<>>,
     start_date |-> 0, end_date |-> 0, main_date |-> 0, end |-> FALSE]

\* an element self._metrics[index] used as the current metric
Concrete(m, index) ==
    [kind |-> "Single", index |-> index, data |-> <<At(m, index)>>,
     start_date |-> At(m, index).date, end_date |-> At(m, index).date,
     main_date |-> At(m, index).date, end |-> FALSE]

\* LinearInterpolationMetric(data, start, end, int_outputs)
LinearInterpolationMetric(data, index, start, end) ==
    [kind |-> "Interp", index |-> index, data |-> data,
     start_date |-> start, end_date |-> end, main_date |-> 0, end |-> FALSE]

\* an extrapolation whose boundary is the far end of its window
ExtrapolationFromFarEnd(data, index, end) ==
    [kind |-> "Extrap", index |-> index, data |-> data,
     start_date |-> 0, end_date |-> 0,
     main_date |-> IF end THEN data[1].date ELSE data[Len(data)].date,
     end |-> end]

\* LinearExtrapolationMetric(data, end, int_outputs)
LinearExtrapolationMetric(data, index, end) ==
    [kind |-> "Extrap", index |-> index, data |-> data,
     start_date |-> 0, end_date |-> 0,
     main_date |-> IF end THEN data[Len(data)].date ELSE data[1].date,
     end |-> end]

\* is_compatible_date of the three classes
IsCompatibleDate(est, date) ==
    CASE est.kind = "Single" -> date = est.main_date
      [] est.kind = "Interp" -> est.start_date <= date /\ date <= est.end_date
      [] est.kind = "Extrap" -> IF est.end THEN date > est.main_date
                                ELSE date < est.main_date
      [] OTHER -> FALSE

\* LinearMetric._get_measurement_value
LinearMeasurementValue(est, date, int_out) ==
    LET out_value == Predict(Fit(est.data), ConvertDate(est.data[1].date, date))
    IN  IF int_out THEN IntVal(Round(out_value)) ELSE out_value

\* _get_measurement_value: SingleDateMetric returns its stored value
MeasurementValue(est, date, int_out) ==
    IF est.kind = "Single" THEN IntVal(est.data[1].value)
    ELSE LinearMeasurementValue(est, date, int_out)

\* the outcome of one call of get on an estimator: the value returned, or
\* the exception raised and no value
Returned(value) == [pc |-> "returned", value |-> <<value>>, error |-> "none"]
Raised(error) == [pc |-> "raised", value |-> <<>>, error |-> error]

\* get without the test of the date
MetricGetUnchecked(est, date, int_out) ==
    Returned(MeasurementValue(est, date, int_out))

\* DailyMetric.get
MetricGet(est, date, int_out) ==
    IF IsCompatibleDate(est, date)
    THEN Returned(MeasurementValue(est, date, int_out))
    ELSE Raised("ValueError")

\* no estimator made by the caller
NoDirect ==
    [pc |-> "none", metric |-> NoMetric, int_outputs |-> FALSE, date |-> 0,
     value |-> <<>>, error |-> "none"]

(***************************************************************************)
(* DailyMetricCollection helpers.                                          *)
(***************************************************************************)
interpolation_range == 3
extrapolation_range == 3

RECURSIVE ForwardOutputs(_, _, _, _)
\* first loop of _get_data_around
ForwardOutputs(m, forward, outputs, data_range) ==
    IF Len(outputs) < data_range /\ forward < Len(m)
    THEN ForwardOutputs(m, forward + 1, Append(outputs, At(m, forward)), data_range)
    ELSE outputs

RECURSIVE RearOutputsAppended(_, _, _, _)
\* a rear loop that appends where the code inserts at the front
RearOutputsAppended(m, rear, outputs, data_range) ==
    IF Len(outputs) < data_range /\ rear >= 0
    THEN RearOutputsAppended(m, rear - 1, Append(outputs, At(m, rear)), data_range)
    ELSE outputs

RECURSIVE RearOutputs(_, _, _, _)
\* second loop of _get_data_around
RearOutputs(m, rear, outputs, data_range) ==
    IF Len(outputs) < data_range /\ rear >= 0
    THEN RearOutputs(m, rear - 1, <<At(m, rear)>> \o outputs, data_range)
    ELSE outputs

\* a window that is the whole list
WholeData(m, index, data_range) == m

\* a window of data_range samples before index and data_range from index on
ShiftedDataAround(m, index, data_range) ==
    RearOutputs(m, index - 1, <<>>, data_range)
        \o ForwardOutputs(m, index, <<>>, data_range)

\* DailyMetricCollection._get_data_around
GetDataAround(m, index, data_range) ==
    RearOutputs(m, index, <<>>, data_range)
        \o ForwardOutputs(m, index + 1, <<>>, data_range)

\* a result that has lost its outside-the-range flag
FoundInside(index, endpoint) == [index |-> index, endpoint |-> FALSE, error |-> FALSE]

FoundAt(index, endpoint) == [index |-> index, endpoint |-> endpoint, error |-> FALSE]
NotFound == [index |-> 0, endpoint |-> FALSE, error |-> TRUE]

RECURSIVE FindIndexLoop(_, _, _, _, _)
\* the binary-search loop of _find_index and the statements after it
FindIndexLoop(m, date, lower, upper, pointer) ==
    IF 0 <= lower /\ lower < Len(m) /\ 0 <= upper /\ upper <= Len(m) /\ upper # lower
    THEN LET metric == At(m, pointer)
         IN  IF date > metric.date
             THEN IF pointer = Len(m) - 1 THEN FoundAt(1, TRUE)
                  ELSE IF date < At(m, pointer + 1).date THEN FoundAt(pointer, FALSE)
                  ELSE FindIndexLoop(m, date, pointer, upper, (pointer + upper) \div 2)
             ELSE IF date < metric.date
             THEN IF pointer = 0 THEN FoundAt(0, TRUE)
                  ELSE FindIndexLoop(m, date, lower, pointer, (lower + pointer) \div 2)
             ELSE FoundAt(pointer, FALSE)
    ELSE IF upper = lower THEN FoundAt(upper, FALSE)
    ELSE NotFound

\* no call of _find_index in progress
NoSearch ==
    [pc |-> "none", date |-> 0, lower |-> 0, upper |-> 0, pointer |-> 0,
     index |-> 0, endpoint |-> FALSE, iterations |-> 0]

\* _find_index(date) up to its loop: lower, upper and pointer assigned
SearchEntered(m, date) ==
    [NoSearch EXCEPT !.pc = "loop", !.date = date, !.lower = 0, !.upper = Len(m),
                     !.pointer = (0 + Len(m)) \div 2]

SearchReturn(s, index, endpoint) ==
    [s EXCEPT !.pc = "returned", !.index = index, !.endpoint = endpoint]

\* the end of an iteration that has not returned: pointer recomputed
SearchOn(s, lower, upper) ==
    [s EXCEPT !.lower = lower, !.upper = upper, !.pointer = (lower + upper) \div 2,
              !.iterations = s.iterations + 1]

\* an iteration without the test of the next sample's date (lines 230-231)
SearchStepNoNext(m, s) ==
    IF 0 <= s.lower /\ s.lower < Len(m) /\ 0 <= s.upper /\ s.upper <= Len(m)
          /\ s.upper # s.lower
    THEN LET metric == At(m, s.pointer)
         IN  IF s.date > metric.date
             THEN IF s.pointer = Len(m) - 1 THEN SearchReturn(s, 1, TRUE)
                  ELSE SearchOn(s, s.pointer, s.upper)
             ELSE IF s.date < metric.date
             THEN IF s.pointer = 0 THEN SearchReturn(s, 0, TRUE)
                  ELSE SearchOn(s, s.lower, s.pointer)
             ELSE SearchReturn(s, s.pointer, FALSE)
    ELSE IF s.upper = s.lower THEN SearchReturn(s, s.upper, FALSE)
    ELSE [s EXCEPT !.pc = "raised"]

\* one test of the loop of _find_index with the iteration that follows it,
\* or with the statements after the loop
SearchStep(m, s) ==
    IF 0 <= s.lower /\ s.lower < Len(m) /\ 0 <= s.upper /\ s.upper <= Len(m)
          /\ s.upper # s.lower
    THEN LET metric == At(m, s.pointer)
         IN  IF s.date > metric.date
             THEN IF s.pointer = Len(m) - 1 THEN SearchReturn(s, 1, TRUE)
                  ELSE IF s.date < At(m, s.pointer + 1).date
                  THEN SearchReturn(s, s.pointer, FALSE)
                  ELSE SearchOn(s, s.pointer, s.upper)
             ELSE IF s.date < metric.date
             THEN IF s.pointer = 0 THEN SearchReturn(s, 0, TRUE)
                  ELSE SearchOn(s, s.lower, s.pointer)
             ELSE SearchReturn(s, s.pointer, FALSE)
    ELSE IF s.upper = s.lower THEN SearchReturn(s, s.upper, FALSE)
    ELSE [s EXCEPT !.pc = "raised"]

\* a search that treats the first sample's own date as before the range
FindIndexInclusive(m, date) ==
    IF Len(m) > 0 /\ date <= m[1].date THEN FoundAt(0, TRUE)
    ELSE FindIndexLoop(m, date, 0, Len(m), (0 + Len(m)) \div 2)

\* a search whose lower bound starts below the list
FindIndexFromBelow(m, date) == FindIndexLoop(m, date, -1, Len(m), (-1 + Len(m)) \div 2)

\* DailyMetricCollection._find_index
FindIndex(m, date) == FindIndexLoop(m, date, 0, Len(m), (0 + Len(m)) \div 2)

\* an interpolation fitted to the window around the sample that closes the gap
InterpolateAroundNext(m, index) ==
    LinearInterpolationMetric(GetDataAround(m, index + 1, interpolation_range), index,
                              At(m, index).date, At(m, index + 1).date)

\* DailyMetricCollection._interpolate
Interpolate(m, index) ==
    LinearInterpolationMetric(GetDataAround(m, index, interpolation_range), index,
                              At(m, index).date, At(m, index + 1).date)

\* an extrapolation that ignores which end it was asked for
ExtrapolateFromStart(m, end) ==
    LinearExtrapolationMetric(GetDataAround(m, 0, extrapolation_range), 0, FALSE)

\* DailyMetricCollection._extrapolate
Extrapolate(m, end) ==
    LET index == IF end THEN Len(m) - 1 ELSE 0
    IN  LinearExtrapolationMetric(GetDataAround(m, index, extrapolation_range), index, end)

(***************************************************************************)
(* DailyMetricCollection.get: the generator.                               *)
(*                                                                         *)
(* A frame holds the arguments and locals of one generator object:         *)
(*   pc       "none"     no generator in this slot                         *)
(*            "created"  get(start, end) was called, the body has not run  *)
(*            "yielded"  suspended at the yield                            *)
(*            "done"     the body returned (StopIteration)                 *)
(*            "raised"   an exception left the body (error names it)       *)
(*   out      the values yielded so far, each with its day and with the    *)
(*            kind and index of the estimator that produced it (history)   *)
(*   fits     the number of calls of _interpolate and _extrapolate made so *)
(*            far, each of which fits a regression (history)               *)
(***************************************************************************)
NoFrame ==
    [pc |-> "none", start |-> 0, end |-> 0, diff |-> 0, i |-> 0,
     current_date |-> 0, next_index |-> 0, current_metric |-> NoMetric,
     out |-> <<>>, error |-> "none", fits |-> 0]

\* the generator object that the call get(start, end) returns
NewFrame(start, end) == [NoFrame EXCEPT !.pc = "created", !.start = start, !.end = end]

Raise(f, error) == [f EXCEPT !.pc = "raised", !.error = error]

\* the length of the range whatever the order of its ends
AbsDiffDays(start, end) == Abs(end - start)

\* diff = (end - start).days
DiffDays(start, end) == end - start

\* lines 281-300: everything before the loop
Prologue(m, f) ==
    LET found == FindIndex(m, f.start)
        start_metric == found.index
        g == [f EXCEPT !.diff = DiffDays(f.start, f.end), !.i = 0,
                       !.current_date = f.start, !.next_index = start_metric + 1]
    IN  IF found.error THEN Raise(g, "RuntimeError")
        ELSE IF found.endpoint
        THEN IF start_metric = 0
             THEN [g EXCEPT !.current_metric = Extrapolate(m, FALSE), !.next_index = 0,
                            !.fits = 1]
             ELSE [g EXCEPT !.current_metric = Extrapolate(m, TRUE),
                            !.next_index = Len(m) + 1, !.fits = 1]
        ELSE IF ~InRange(m, start_metric) THEN Raise(g, "IndexError")
        ELSE IF g.current_date = At(m, start_metric).date
        THEN [g EXCEPT !.current_metric = Concrete(m, start_metric)]
        ELSE [g EXCEPT !.current_metric = Interpolate(m, start_metric), !.fits = 1]

\* lines 305-317: the statements between a yield and the next loop test
Advance(m, f) ==
    LET current_date == f.current_date + 1
        g == [f EXCEPT !.i = f.i + 1, !.current_date = current_date]
    IN  IF f.next_index = Len(m)
        THEN [g EXCEPT !.current_metric = Extrapolate(m, TRUE), !.fits = f.fits + 1]
        ELSE IF f.next_index < Len(m) /\ At(m, f.next_index).date = current_date
        THEN [g EXCEPT !.current_metric = Concrete(m, f.next_index),
                       !.next_index = f.next_index + 1]
        ELSE IF ~IsCompatibleDate(f.current_metric, current_date)
        THEN IF InRange(m, f.next_index - 1) /\ InRange(m, f.next_index)
             THEN [g EXCEPT !.current_metric = Interpolate(m, f.next_index - 1),
                            !.next_index = f.next_index + 1, !.fits = f.fits + 1]
             ELSE Raise(g, "IndexError")
        ELSE g

\* one yielded value, as recorded in out
Emission(est, date, value) ==
    [date |-> date, value |-> value, kind |-> est.kind, index |-> est.index,
     end |-> est.end]

\* a loop that stops one day early (i < diff)
LoopTopExclusive(m, int_out, f) ==
    IF f.pc = "raised" THEN f
    ELSE IF f.i < f.diff
    THEN IF IsCompatibleDate(f.current_metric, f.current_date)
         THEN [f EXCEPT !.pc = "yielded",
                        !.out = Append(f.out,
                                  Emission(f.current_metric, f.current_date,
                                    MeasurementValue(f.current_metric,
                                                     f.current_date, int_out)))]
         ELSE Raise(f, "ValueError")
    ELSE [f EXCEPT !.pc = "done"]

\* lines 303-304: the loop test and  yield current_metric.get(current_date),
\* where DailyMetric.get raises ValueError on an incompatible date
LoopTop(m, int_out, f) ==
    IF f.pc = "raised" THEN f
    ELSE IF f.i <= f.diff
    THEN IF IsCompatibleDate(f.current_metric, f.current_date)
         THEN [f EXCEPT !.pc = "yielded",
                        !.out = Append(f.out,
                                  Emission(f.current_metric, f.current_date,
                                    MeasurementValue(f.current_metric,
                                                     f.current_date, int_out)))]
         ELSE Raise(f, "ValueError")
    ELSE [f EXCEPT !.pc = "done"]

\* one next() on a generator that is not finished
GenNext(m, int_out, f) ==
    IF f.pc = "created" THEN LoopTop(m, int_out, Prologue(m, f))
    ELSE LoopTop(m, int_out, Advance(m, f))

Finished(f) == f.pc \in {"done", "raised"}

RECURSIVE RunGen(_, _, _)
\* list(generator): the frame once it is consumed to the end
RunGen(m, int_out, f) ==
    IF Finished(f) THEN f ELSE RunGen(m, int_out, GenNext(m, int_out, f))

(***************************************************************************)
(* generate_metrics and average_metrics, as location_stats uses them on    *)
(* the tweets of a state.  generate_metrics is a generator: a frame with   *)
(* the position of its for loop, the samples it has yielded, and the       *)
(* indices of the items its transform has been called with, in call order. *)
(***************************************************************************)
\* a Tweet, with the fields location_stats reads; time_stamp is a datetime
Tweet(day, hour, polarity) ==
    [time_stamp |-> [day |-> day, hour |-> hour], polarity |-> polarity]

\* lambda tweet: (tweet.time_stamp.date(), tweet.polarity)
TweetTransform(tweet) == <<tweet.time_stamp.day, tweet.polarity>>

NoFeed == [pc |-> "none", data |-> <<>>, pos |-> 0, applied |-> <<>>, out |-> <<>>]

\* generate_metrics(data, transform): the generator object, body not started
NewFeed(data) == [NoFeed EXCEPT !.pc = "created", !.data = data]

\* a list comprehension in place of the generator: the transform is called
\* with every item before the first sample is handed out
GenerateEager(f) ==
    IF f.pos < Len(f.data)
    THEN LET pair == TweetTransform(f.data[f.pos + 1])
         IN  [f EXCEPT !.pc = "yielded", !.pos = @ + 1,
                       !.applied = [k \in 1 .. Len(f.data) |-> k],
                       !.out = Append(@, SingleDateMetric(pair[1], pair[2]))]
    ELSE [f EXCEPT !.pc = "done"]

\* one next() on the generator: the next item transformed and yielded, or
\* the end of the loop
GenerateNext(f) ==
    IF f.pos < Len(f.data)
    THEN LET pair == TweetTransform(f.data[f.pos + 1])
         IN  [f EXCEPT !.pc = "yielded", !.pos = @ + 1,
                       !.applied = Append(@, f.pos + 1),
                       !.out = Append(@, SingleDateMetric(pair[1], pair[2]))]
    ELSE [f EXCEPT !.pc = "done"]

RECURSIVE DrainFeed(_)
\* `for point in data` over the generator, to its end
DrainFeed(f) == IF f.pc = "done" THEN f ELSE DrainFeed(GenerateNext(f))

RECURSIVE GroupByDate(_)
\* the dict `dates` after the loop of average_metrics: one entry per date,
\* in the order of insertion, each with its points in the order of arrival
GroupByDate(data) ==
    IF data = <<>> THEN <<>>
    ELSE LET dates == GroupByDate(SubSeq(data, 1, Len(data) - 1))
             point == data[Len(data)]
         IN  IF \E k \in DOMAIN dates : dates[k].date = point.date
             THEN [k \in DOMAIN dates |->
                      IF dates[k].date = point.date
                      THEN [dates[k] EXCEPT !.points = Append(@, point)]
                      ELSE dates[k]]
             ELSE Append(dates, [date |-> point.date, points |-> <<point>>])

\* the quotient of Python 2's / (or of //) on integers
MeanFloor(points) ==
    IntVal(SumSeq([k \in DOMAIN points |-> points[k].value]) \div Len(points))

\* sum(d.value for d in points) / len(points), exactly
Mean(points) ==
    Frac(SumSeq([k \in DOMAIN points |-> points[k].value]), Len(points))

\* average_metrics(data) on the samples data yields
AverageMetrics(data) ==
    LET dates == GroupByDate(data)
    IN  [k \in DOMAIN dates |->
            SingleDateMetric(dates[k].date, Mean(dates[k].points))]

\* no generate_metrics / average_metrics call in progress
NoAverage == [gen |-> NoFeed, input |-> <<>>, result |-> <<>>, averaged |-> FALSE]

(***************************************************************************)
(* The location table and its binary search (states.code_lookup and        *)
(* App.location_code_lookup, the same code over STATES and over            *)
(* self.locations).  A code is the pair of its two upper-case letters.     *)
(***************************************************************************)
Alphabet ==
    <<"A", "B", "C", "D", "E", "F", "G", "H", "I", "J", "K", "L", "M",
      "N", "O", "P", "Q", "R", "S", "T", "U", "V", "W", "X", "Y", "Z">>

\* ord(letter), counted from "A" = 1
Ord(letter) == CHOOSE i \in DOMAIN Alphabet : Alphabet[i] = letter

\* Location(code, name, related_terms); the search reads code only
Location(code, name) == [code |-> code, name |-> name]

STATES ==
    <<Location(<<"A", "K">>, "Alaska"),
      Location(<<"A", "L">>, "Alabama"),
      Location(<<"A", "R">>, "Arkansas"),
      Location(<<"A", "Z">>, "Arizona"),
      Location(<<"C", "A">>, "California"),
      Location(<<"C", "O">>, "Colorado"),
      Location(<<"C", "T">>, "Connecticut"),
      Location(<<"D", "C">>, "District of Columbia"),
      Location(<<"D", "E">>, "Delaware"),
      Location(<<"F", "L">>, "Florida"),
      Location(<<"G", "A">>, "Georgia"),
      Location(<<"H", "I">>, "Hawaii"),
      Location(<<"I", "A">>, "Iowa"),
      Location(<<"I", "D">>, "Idaho"),
      Location(<<"I", "L">>, "Illinois"),
      Location(<<"I", "N">>, "Indiana"),
      Location(<<"K", "S">>, "Kansas"),
      Location(<<"K", "Y">>, "Kentucky"),
      Location(<<"L", "A">>, "Louisiana"),
      Location(<<"M", "A">>, "Massachusetts"),
      Location(<<"M", "D">>, "Maryland"),
      Location(<<"M", "E">>, "Maine"),
      Location(<<"M", "I">>, "Michigan"),
      Location(<<"M", "N">>, "Minnesota"),
      Location(<<"M", "O">>, "Missouri"),
      Location(<<"M", "S">>, "Mississippi"),
      Location(<<"M", "T">>, "Montana"),
      Location(<<"N", "C">>, "North Carolina"),
      Location(<<"N", "D">>, "North Dakota"),
      Location(<<"N", "E">>, "Nebraska"),
      Location(<<"N", "H">>, "New Hampshire"),
      Location(<<"N", "J">>, "New Jersey"),
      Location(<<"N", "M">>, "New Mexico"),
      Location(<<"N", "V">>, "Nevada"),
      Location(<<"N", "Y">>, "New York"),
      Location(<<"O", "H">>, "Ohio"),
      Location(<<"O", "K">>, "Oklahoma"),
      Location(<<"O", "R">>, "Oregon"),
      Location(<<"P", "A">>, "Pennsylvania"),
      Location(<<"P", "R">>, "Puerto Rico"),
      Location(<<"R", "I">>, "Rhode Island"),
      Location(<<"S", "C">>, "South Carolina"),
      Location(<<"S", "D">>, "South Dakota"),
      Location(<<"T", "N">>, "Tennessee"),
      Location(<<"T", "X">>, "Texas"),
      Location(<<"U", "T">>, "Utah"),
      Location(<<"V", "A">>, "Virginia"),
      Location(<<"V", "T">>, "Vermont"),
      Location(<<"W", "A">>, "Washington"),
      Location(<<"W", "I">>, "Wisconsin"),
      Location(<<"W", "V">>, "West Virginia"),
      Location(<<"W", "Y">>, "Wyoming")>>

\* the comparison turned round
CodeLess(code, other) ==
    \/ Ord(code[1]) < Ord(other[1])
    \/ code[1] = other[1] /\ Ord(code[2]) < Ord(other[2])

\* code > other on two-letter strings: by the first letter, then the second
CodeGreater(code, other) ==
    \/ Ord(code[1]) > Ord(other[1])
    \/ code[1] = other[1] /\ Ord(code[2]) > Ord(other[2])

NoLookup ==
    [pc |-> "none", locations |-> <<>>, code |-> <<>>, lower |-> 0, upper |-> 0,
     pointer |-> 0, result |-> Location(<<>>, ""), error |-> "none"]

\* lower = 0; upper = len(locations); pointer = (lower + upper) // 2
LookupEntered(l) ==
    [l EXCEPT !.pc = "loop", !.lower = 0, !.upper = Len(l.locations),
              !.pointer = (0 + Len(l.locations)) \div 2]

\* the test of the while loop
LookupContinues(l) ==
    /\ 0 <= l.lower /\ l.lower < Len(l.locations)
    /\ 0 <= l.upper /\ l.upper <= Len(l.locations)
    /\ At(l.locations, l.pointer).code # l.code

\* the body of the while loop
LookupBody(l) ==
    LET moved == IF CodeGreater(l.code, At(l.locations, l.pointer).code)
                 THEN [l EXCEPT !.lower = l.pointer]
                 ELSE [l EXCEPT !.upper = l.pointer]
    IN  [moved EXCEPT !.pointer = (moved.lower + moved.upper) \div 2]

\* return locations[pointer]
LookupReturn(l) ==
    IF InRange(l.locations, l.pointer)
    THEN [l EXCEPT !.pc = "returned", !.result = At(l.locations, l.pointer)]
    ELSE [l EXCEPT !.pc = "raised", !.error = "IndexError"]

(***************************************************************************)
(* Constructor arguments the model draws from.                             *)
(***************************************************************************)
\* spec.md section 8, scenarios A and B, and A with negated values
ScenarioA == <<SingleDateMetric(0, 10), SingleDateMetric(4, 20)>>
ScenarioB == <<SingleDateMetric(0, 10), SingleDateMetric(1, 12)>>
ScenarioANeg == <<SingleDateMetric(0, -10), SingleDateMetric(4, -20)>>
\* five samples with a gap after the first: the window around index 0 does
\* not reach the last one
FiveSamples ==
    <<SingleDateMetric(0, 0), SingleDateMetric(2, 0), SingleDateMetric(3, 0),
      SingleDateMetric(4, 0), SingleDateMetric(5, 1)>>
Scenarios == {ScenarioA, ScenarioB, ScenarioANeg, FiveSamples}

RECURSIVE OrdersOf(_)
\* the orders in which the dates of S can be listed
OrdersOf(S) ==
    IF S = {} THEN {<<>>}
    ELSE UNION {{<<d>> \o p : p \in OrdersOf(S \ {d})} : d \in S}

\* the values of a drawn list: 0, but for at most one sample
SpikeValues(S) ==
    {[d \in S |-> 0]}
        \cup {[d \in S |-> IF d = k THEN v ELSE 0] : k \in S, v \in 1 .. MaxValue}

\* the list of samples with the dates of p, in that order, and the values val
DataList(p, val) == [k \in DOMAIN p |-> SingleDateMetric(p[k], val[p[k]])]

\* the samples of the dates S in ascending order
AscendingList(S) ==
    LET p == CHOOSE q \in OrdersOf(S) : \A k \in 1 .. Len(q) - 1 : q[k] < q[k + 1]
    IN  DataList(p, [d \in S |-> d % (MaxValue + 1)])

NoArgs == [data |-> <<>>, int_outputs |-> FALSE]

(***************************************************************************)
(* The state machine.                                                      *)
(***************************************************************************)
TypeOK ==
    /\ phase \in {"new", "built", "failed"}
    /\ int_outputs \in BOOLEAN
    /\ DOMAIN gens = Gens

\* the state in which DailyMetricCollection(data, int_out) is about to run
InitWith(data, int_out) ==
    /\ pending = [data |-> data, int_outputs |-> int_out]
    /\ phase = "new"
    /\ metrics = <<>>
    /\ int_outputs = FALSE
    /\ gens = [g \in Gens |-> NoFrame]
    /\ given = <<>>
    /\ feed = NoAverage
    /\ direct = NoDirect
    /\ lookup = NoLookup
    /\ search = NoSearch

\* data: a scenario, or any list, in any order, of samples with pairwise
\* distinct dates (callers pass the output of average_metrics)
Init ==
    \E int_out \in BOOLEAN :
        \/ \E data \in Scenarios : InitWith(data, int_out)
        \/ \E S \in SUBSET Dates : \E p \in OrdersOf(S) : \E val \in SpikeValues(S) :
               InitWith(DataList(p, val), int_out)

\* DailyMetricCollection.__init__: stores the flag and the sorted list;
\* it has no failure path
Construct ==
    /\ phase = "new"
    /\ phase' = "built"
    /\ metrics' = SortByDate(pending.data)
    /\ int_outputs' = pending.int_outputs
    /\ pending' = NoArgs
    /\ UNCHANGED <<gens, given, feed, direct, lookup, search>>

\* collection.get(start, end): creates the generator, runs nothing.  A slot
\* is taken when it holds no generator or one that is exhausted (a generator
\* that is dropped half-way is read by nobody and is not kept).
Call(g, start, end) ==
    /\ phase = "built"
    /\ gens[g].pc \in {"none", "done", "raised"}
    /\ gens' = [gens EXCEPT ![g] = NewFrame(start, end)]
    /\ UNCHANGED <<pending, phase, metrics, int_outputs, given, feed, direct, lookup, search>>

\* the current metric kept in one place and used by every generator
SharedFrame(g) == [gens[g] EXCEPT !.current_metric = gens["a"].current_metric]

\* the locals a generator resumes with are those of its own frame
Frame(g) == gens[g]

\* a next() that drops the first stored sample as it goes
PullDraining(g) ==
    /\ phase = "built"
    /\ Frame(g).pc \in {"created", "yielded"}
    /\ gens' = [gens EXCEPT ![g] = GenNext(metrics, int_outputs, Frame(g))]
    /\ metrics' = IF metrics = <<>> THEN metrics ELSE Tail(metrics)
    /\ UNCHANGED <<pending, phase, int_outputs, given, feed, direct, lookup, search>>

\* next(generator)
Pull(g) ==
    /\ phase = "built"
    /\ Frame(g).pc \in {"created", "yielded"}
    /\ gens' = [gens EXCEPT ![g] = GenNext(metrics, int_outputs, Frame(g))]
    /\ UNCHANGED <<pending, phase, metrics, int_outputs, given, feed, direct, lookup, search>>

\* one generator at a time
Next ==
    \/ Construct
    \/ \E start, end \in QueryDays : Call("a", start, end)
    \/ Pull("a")

Spec == Init /\ [][Next]_vars

\* two generators on one collection, their calls and pulls interleaved
InitPair ==
    \E int_out \in BOOLEAN : \E data \in {ScenarioA, FiveSamples} :
        InitWith(data, int_out)

NextPair ==
    \/ Construct
    \/ \E g \in Gens : \E start, end \in QueryDays : Call(g, start, end)
    \/ \E g \in Gens : Pull(g)

SpecPair == InitPair /\ [][NextPair]_vars

\* the caller's list is kept beside the collection built from it: sorted()
\* returns a new list and leaves its argument as it was.  The lists are all
\* orders of all sets of dates, the sample of date d with value
\* d % (MaxValue + 1).
InitOrder ==
    \E int_out \in BOOLEAN :
        \E S \in SUBSET Dates : \E p \in OrdersOf(S) :
            LET data == DataList(p, [d \in S |-> d % (MaxValue + 1)])
            IN  /\ pending = [data |-> data, int_outputs |-> int_out]
                /\ phase = "new"
                /\ metrics = <<>>
                /\ int_outputs = FALSE
                /\ gens = [g \in Gens |-> NoFrame]
                /\ given = data
                /\ feed = NoAverage
                /\ direct = NoDirect
                /\ lookup = NoLookup
                /\ search = NoSearch

\* the ranges that end after the last possible sample date
NextOrder ==
    \/ Construct
    \/ \E start \in QueryDays : Call("a", start, MaxDay + 1)
    \/ Pull("a")

SpecOrder == InitOrder /\ [][NextOrder]_vars

\* the tweets of a state, as location_stats hands them to generate_metrics
Tweets == {Tweet(d, h, v) : d \in FeedDays, h \in Hours, v \in 0 .. MaxValue}

\* tweet_metric = generate_metrics(tweets, lambda ...): nothing has run yet
InitFeed ==
    \E n \in 0 .. MaxItems : \E data \in [1 .. n -> Tweets] :
        /\ feed = [NoAverage EXCEPT !.gen = NewFeed(data)]
        /\ pending = NoArgs
        /\ phase = "new"
        /\ metrics = <<>>
        /\ int_outputs = FALSE
        /\ gens = [g \in Gens |-> NoFrame]
        /\ given = <<>>
        /\ direct = NoDirect
        /\ lookup = NoLookup
        /\ search = NoSearch

\* next(tweet_metric)
FeedPull ==
    /\ feed.gen.pc \in {"created", "yielded"}
    /\ feed' = [feed EXCEPT !.gen = GenerateNext(@)]
    /\ UNCHANGED <<pending, phase, metrics, int_outputs, gens, given, direct, lookup, search>>

\* average_metrics(tweet_metric): consumes what the generator still has to
\* yield and returns the list of the means
Average ==
    /\ feed.gen.pc \in {"created", "yielded", "done"}
    /\ ~feed.averaged
    /\ LET drained == DrainFeed(feed.gen)
           input == SubSeq(drained.out, Len(feed.gen.out) + 1, Len(drained.out))
       IN  feed' = [gen |-> drained, input |-> input,
                    result |-> AverageMetrics(input), averaged |-> TRUE]
    /\ UNCHANGED <<pending, phase, metrics, int_outputs, gens, given, direct, lookup, search>>

NextFeed == FeedPull \/ Average

SpecFeed == InitFeed /\ [][NextFeed]_vars

\* the sorted lists of two or more samples a caller fits an estimator to
\* (the precondition of the two regression classes), the sample of date d
\* with value d % (MaxValue + 1)
FittedLists ==
    {AscendingList(S) : S \in {T \in SUBSET Dates : Cardinality(T) >= 2}}

\* the estimators a caller makes: SingleDateMetric(d, v),
\* LinearInterpolationMetric(data, start, end, int_outputs) and
\* LinearExtrapolationMetric(data, end, int_outputs)
DirectMetrics ==
    {Concrete(<<SingleDateMetric(d, v)>>, 0) : d \in Dates, v \in 0 .. MaxValue}
        \cup {LinearInterpolationMetric(data, 0, start, end) :
                 data \in FittedLists, start \in QueryDays, end \in QueryDays}
        \cup {LinearExtrapolationMetric(data, 0, end) :
                 data \in FittedLists, end \in BOOLEAN}

\* an estimator made, no collection around it
InitDirect ==
    \E int_out \in BOOLEAN : \E est \in DirectMetrics :
        /\ direct = [NoDirect EXCEPT !.pc = "made", !.metric = est,
                                     !.int_outputs = int_out]
        /\ pending = NoArgs
        /\ phase = "new"
        /\ metrics = <<>>
        /\ int_outputs = FALSE
        /\ gens = [g \in Gens |-> NoFrame]
        /\ given = <<>>
        /\ feed = NoAverage
        /\ lookup = NoLookup
        /\ search = NoSearch

\* metric.get(date), called by the owner of the estimator
DirectGet ==
    /\ direct.pc # "none"
    /\ \E date \in QueryDays :
           LET result == MetricGet(direct.metric, date, direct.int_outputs)
           IN  direct' = [direct EXCEPT !.pc = result.pc, !.date = date,
                                        !.value = result.value,
                                        !.error = result.error]
    /\ UNCHANGED <<pending, phase, metrics, int_outputs, gens, given, feed, lookup, search>>

NextDirect == DirectGet

SpecDirect == InitDirect /\ [][NextDirect]_vars

\* every code of the first MaxLetter letters, in alphabetical order
DrawnCodes ==
    [k \in 1 .. MaxLetter * MaxLetter |->
        <<Alphabet[((k - 1) \div MaxLetter) + 1], Alphabet[((k - 1) % MaxLetter) + 1]>>]

\* the tables sorted by code with one location per code: STATES, and the
\* non-empty selections of the drawn codes in their alphabetical order
LocationTables ==
    {STATES}
        \cup {SelectSeq([k \in DOMAIN DrawnCodes |-> Location(DrawnCodes[k], "unnamed")],
                        LAMBDA loc : loc.code \in S) :
                 S \in (SUBSET {DrawnCodes[k] : k \in DOMAIN DrawnCodes}) \ {{}}}

\* code_lookup(code) called with a code of the table (the precondition
\* code in [location.code for location in self.locations])
InitLookup ==
    \E table \in LocationTables : \E k \in DOMAIN table :
        /\ lookup = [NoLookup EXCEPT !.pc = "called", !.locations = table,
                                     !.code = table[k].code]
        /\ pending = NoArgs
        /\ phase = "new"
        /\ metrics = <<>>
        /\ int_outputs = FALSE
        /\ gens = [g \in Gens |-> NoFrame]
        /\ given = <<>>
        /\ feed = NoAverage
        /\ direct = NoDirect
        /\ search = NoSearch

\* the three assignments before the loop
LookupEnter ==
    /\ lookup.pc = "called"
    /\ lookup' = LookupEntered(lookup)
    /\ UNCHANGED <<pending, phase, metrics, int_outputs, gens, given, feed, direct, search>>

\* one test of the loop, with the body or the return that follows it
LookupStep ==
    /\ lookup.pc = "loop"
    /\ lookup' = IF LookupContinues(lookup) THEN LookupBody(lookup)
                 ELSE LookupReturn(lookup)
    /\ UNCHANGED <<pending, phase, metrics, int_outputs, gens, given, feed, direct, search>>

NextLookup == LookupEnter \/ LookupStep

\* the call runs on: a step that is possible is taken
SpecLookup == InitLookup /\ [][NextLookup]_vars /\ WF_vars(NextLookup)

\* self._find_index(date) called on the collection
FindIndexCall ==
    /\ phase = "built"
    /\ search.pc \in {"none", "returned", "raised"}
    /\ \E date \in QueryDays : search' = SearchEntered(metrics, date)
    /\ UNCHANGED <<pending, phase, metrics, int_outputs, gens, given, feed, direct,
                   lookup>>

\* the call runs one iteration further, or returns
FindIndexStep ==
    /\ search.pc = "loop"
    /\ search' = SearchStep(metrics, search)
    /\ UNCHANGED <<pending, phase, metrics, int_outputs, gens, given, feed, direct,
                   lookup>>

NextSearch == Construct \/ FindIndexCall \/ FindIndexStep

\* a call of _find_index that has started runs on
SpecSearch == Init /\ [][NextSearch]_vars /\ WF_vars(FindIndexStep)

(***************************************************************************)
(* Vocabulary of the properties.                                           *)
(***************************************************************************)
Max(a, b) == IF a >= b THEN a ELSE b

\* the representation invariant on the sample count (class docstring)
CountInvariant == Len(metrics) > Max(interpolation_range, extrapolation_range)

\* a constructed collection with strictly increasing dates and enough samples
ValidSeries ==
    /\ phase = "built"
    /\ CountInvariant
    /\ \A k \in 1 .. Len(metrics) - 1 : metrics[k].date < metrics[k + 1].date

\* the values of the emissions of a frame, in order
ValuesOf(f) == [k \in DOMAIN f.out |-> f.out[k].value]

\* the value of the fitted line of a regression estimator at a date
LineValue(est, date) == Predict(Fit(est.data), ConvertDate(est.data[1].date, date))

\* q is exactly half-way between two integers
IsTie(q) == q[2] = 2

\* z is an integer nearest to the rational q
Nearest(q, z) == 2 * Abs(q[1] - z * q[2]) <= q[2]

\* the nearest integer, a tie resolved away from zero
NearestTiesAway(q) ==
    CHOOSE z \in (Floor(q) - 1) .. (Floor(q) + 1) :
        Nearest(q, z) /\ (IsTie(q) => Abs(z) * q[2] > Abs(q[1]))

\* the nearest integer, a tie resolved to the even neighbour
NearestTiesEven(q) ==
    CHOOSE z \in (Floor(q) - 1) .. (Floor(q) + 1) :
        Nearest(q, z) /\ (IsTie(q) => z % 2 = 0)

(***************************************************************************)
(* C1.  On a valid series (strictly increasing dates, more samples than    *)
(* the radii) and start <= end, a generator consumed to the end has        *)
(* yielded exactly (end - start).days + 1 values, the k-th for day         *)
(* start + k, and has ended normally.                                      *)
(***************************************************************************)
GetYieldsEveryDay ==
    \A g \in Gens :
        (ValidSeries /\ Finished(gens[g]) /\ gens[g].start <= gens[g].end)
            => /\ gens[g].pc = "done"
               /\ Len(gens[g].out) = gens[g].end - gens[g].start + 1
               /\ \A k \in DOMAIN gens[g].out :
                      gens[g].out[k].date = gens[g].start + (k - 1)

(***************************************************************************)
(* C2.  Every value emitted for a day that is the date of a stored sample  *)
(* is that sample's stored value and comes from the sample itself          *)
(* (SingleDateMetric), never from a regression.                            *)
(***************************************************************************)
SampleDatesEmitStoredValue ==
    \A g \in Gens :
        ValidSeries =>
            \A k \in DOMAIN gens[g].out : \A j \in DOMAIN metrics :
                metrics[j].date = gens[g].out[k].date
                    => /\ gens[g].out[k].kind = "Single"
                       /\ gens[g].out[k].value = IntVal(metrics[j].value)

(***************************************************************************)
(* C3.  On a valid series with start <= end the current estimator is       *)
(* compatible with every day it is asked for: get never ends with the      *)
(* ValueError of DailyMetric.get.                                          *)
(***************************************************************************)
GetNeverAsksIncompatibleDate ==
    \A g \in Gens :
        (ValidSeries /\ gens[g].start <= gens[g].end)
            => ~(gens[g].pc = "raised" /\ gens[g].error = "ValueError")

(***************************************************************************)
(* C4 (as stated).  get(start, end) with start > end fails with an         *)
(* InvalidRange error and emits no value.                                  *)
(***************************************************************************)
InvalidRangeFails ==
    \A g \in Gens :
        (Finished(gens[g]) /\ gens[g].start > gens[g].end)
            => /\ gens[g].pc = "raised"
               /\ gens[g].error = "InvalidRange"
               /\ gens[g].out = <<>>

(***************************************************************************)
(* C4 (amended).  On a collection of at least two samples, get(start, end) *)
(* with start > end raises nothing: the generator never yields and its     *)
(* first next() ends it normally, with no value emitted.                   *)
(***************************************************************************)
InvalidRangeYieldsNothing ==
    \A g \in Gens :
        (phase = "built" /\ Len(metrics) >= 2 /\ gens[g].pc # "none"
            /\ gens[g].start > gens[g].end)
            => /\ gens[g].pc \in {"created", "done"}
               /\ gens[g].error = "none"
               /\ gens[g].out = <<>>

InvalidRangeConsumed ==
    \E g \in Gens :
        /\ Len(metrics) >= 2
        /\ gens[g].pc = "done"
        /\ gens[g].start > gens[g].end
        /\ gens[g].out = <<>>

(***************************************************************************)
(* C5.  A collection whose sample count is not greater than the radii      *)
(* cannot be constructed: construction fails, so every constructed         *)
(* collection satisfies the count invariant.                               *)
(***************************************************************************)
ConstructionEnforcesCount ==
    /\ phase = "built" => CountInvariant
    /\ (phase # "new" /\ ~CountInvariant) => phase = "failed"

(***************************************************************************)
(* C6.  Scenario A: samples (day0, 10.0), (day4, 20.0), float output:      *)
(* get(day0, day4) yields 10.0, 12.5, 15.0, 17.5, 20.0 and ends.           *)
(***************************************************************************)
ScenarioAResult ==
    \A g \in Gens :
        (phase = "built" /\ metrics = ScenarioA /\ ~int_outputs
            /\ gens[g].start = 0 /\ gens[g].end = 4 /\ Finished(gens[g]))
            => /\ gens[g].pc = "done"
               /\ ValuesOf(gens[g]) =
                      <<IntVal(10), Frac(25, 2), IntVal(15), Frac(35, 2), IntVal(20)>>

(***************************************************************************)
(* C7 (as stated).  A value a regression estimator returns is the fitted   *)
(* line's value, rounded when integer output is set to the nearest integer *)
(* with ties away from zero (12.5 -> 13, 17.5 -> 18, -12.5 -> -13).        *)
(***************************************************************************)
RegressionRoundsTiesAway ==
    \A g \in Gens :
        (gens[g].pc = "yielded" /\ gens[g].current_metric.kind # "Single")
            => LET raw == LineValue(gens[g].current_metric, gens[g].current_date)
                   value == gens[g].out[Len(gens[g].out)].value
               IN  IF int_outputs THEN value = IntVal(NearestTiesAway(raw))
                   ELSE value = raw

(***************************************************************************)
(* C7 (amended).  A value a regression estimator returns is the fitted     *)
(* line's value, rounded when integer output is set to the nearest integer *)
(* with ties to the even neighbour (12.5 -> 12, 17.5 -> 18, -12.5 -> -12); *)
(* without integer output it is the line's value unrounded.                *)
(***************************************************************************)
RegressionRoundsTiesEven ==
    \A g \in Gens :
        (gens[g].pc = "yielded" /\ gens[g].current_metric.kind # "Single")
            => LET raw == LineValue(gens[g].current_metric, gens[g].current_date)
                   value == gens[g].out[Len(gens[g].out)].value
               IN  IF int_outputs THEN value = IntVal(NearestTiesEven(raw))
                   ELSE value = raw

\* 12.5 was rounded: integer output of scenario A's day 1
TieRounded ==
    \E g \in Gens :
        /\ int_outputs
        /\ gens[g].pc = "yielded"
        /\ gens[g].current_metric.kind = "Interp"
        /\ LineValue(gens[g].current_metric, gens[g].current_date) = Frac(25, 2)
        /\ gens[g].out[Len(gens[g].out)].value = IntVal(12)

(***************************************************************************)
(* C8.  Scenario B: samples (day0, 10.0), (day1, 12.0): get(day(-1),       *)
(* day(-1)) yields the single value 8.0, from a before-first extrapolation *)
(* fitted on both samples.                                                 *)
(***************************************************************************)
ScenarioBResult ==
    \A g \in Gens :
        (phase = "built" /\ metrics = ScenarioB
            /\ gens[g].start = -1 /\ gens[g].end = -1)
            => /\ gens[g].pc = "yielded"
                   => /\ gens[g].current_metric.kind = "Extrap"
                      /\ ~gens[g].current_metric.end
                      /\ gens[g].current_metric.data = ScenarioB
               /\ gens[g].pc \in {"yielded", "done"}
                   => /\ ValuesOf(gens[g]) = <<IntVal(8)>>
                      /\ gens[g].out[1].kind = "Extrap"
                      /\ ~gens[g].out[1].end
               /\ Finished(gens[g]) => gens[g].pc = "done"

ScenarioBConsumed ==
    \E g \in Gens :
        /\ metrics = ScenarioB
        /\ gens[g].start = -1 /\ gens[g].end = -1
        /\ gens[g].pc = "done"
        /\ ValuesOf(gens[g]) = <<IntVal(8)>>

(***************************************************************************)
(* C9.  Determinism: two generators of one collection called with the same *)
(* (start, end), each consumed to the end, have the same outcome: the same *)
(* values from the same estimators in the same positions and the same end  *)
(* (normal, or the same exception), whatever other calls and pulls came    *)
(* before or in between.                                                   *)
(***************************************************************************)
SameArgsSameOutcome ==
    \A g, h \in Gens :
        (Finished(gens[g]) /\ Finished(gens[h])
            /\ gens[g].start = gens[h].start /\ gens[g].end = gens[h].end)
            => /\ gens[g].out = gens[h].out
               /\ gens[g].pc = gens[h].pc
               /\ gens[g].error = gens[h].error

\* both generators were consumed over the same range of three or more days
TwoRunsOfOneRange ==
    /\ Finished(gens["a"]) /\ Finished(gens["b"])
    /\ gens["a"].start = gens["b"].start /\ gens["a"].end = gens["b"].end
    /\ Len(gens["a"].out) >= 3

(***************************************************************************)
(* C10.  Locality: let day d be emitted by an estimator built around index *)
(* i, and let sample k be another sample than the one dated d, more than   *)
(* the radius away from i when the estimator is a regression.  Then on the *)
(* series that differs only in the value of sample k, get emits the same   *)
(* value for d.                                                            *)
(***************************************************************************)
\* the series with the value of its k-th sample replaced
WithValue(m, k, v) == [m EXCEPT ![k] = SingleDateMetric(m[k].date, v)]

\* values a sample can be changed to
OtherValues == 0 .. (MaxValue + 1)

RadiusOf(est) == IF est.kind = "Interp" THEN interpolation_range ELSE extrapolation_range

\* sample k (position k of the list) is outside the window of the estimator
\* and is not the sample of day d
FarFrom(est, d, k) ==
    /\ metrics[k].date # d
    /\ est.kind # "Single" => Abs((k - 1) - est.index) > RadiusOf(est)

\* what get(start, d) on series m emits for its last day d
EmittedFor(m, start, d) ==
    LET f == RunGen(m, int_outputs, NewFrame(start, d))
    IN  IF f.pc = "done" /\ f.out # <<>> /\ f.out[Len(f.out)].date = d
        THEN f.out[Len(f.out)].value
        ELSE <<0, 0>>

WindowIsolation ==
    \A g \in Gens :
        gens[g].pc = "yielded" =>
            \A k \in DOMAIN metrics :
                FarFrom(gens[g].current_metric, gens[g].current_date, k) =>
                    \A v \in OtherValues :
                        EmittedFor(WithValue(metrics, k, v), gens[g].start,
                                   gens[g].current_date)
                            = gens[g].out[Len(gens[g].out)].value

\* an interpolated day with a sample outside the window of its estimator
InterpolatedFarFromSample ==
    \E g \in Gens : \E k \in DOMAIN metrics :
        /\ gens[g].pc = "yielded"
        /\ gens[g].current_metric.kind = "Interp"
        /\ FarFrom(gens[g].current_metric, gens[g].current_date, k)

(***************************************************************************)
(* C11.  Boundary: when start is the first sample's date, get never builds *)
(* a before-first extrapolation and its first value is the first sample's  *)
(* stored value; when start is earlier than the first sample's date, the   *)
(* first value comes from a before-first extrapolation.                    *)
(***************************************************************************)
IsBeforeFirst(e) == e.kind = "Extrap" /\ ~e.end

FirstDateBoundary ==
    \A g \in Gens :
        (phase = "built" /\ Len(metrics) >= 1 /\ gens[g].pc \notin {"none", "created"}
            /\ gens[g].start <= gens[g].end)
            => /\ gens[g].start = metrics[1].date
                   => /\ ~IsBeforeFirst(gens[g].current_metric)
                      /\ \A k \in DOMAIN gens[g].out : ~IsBeforeFirst(gens[g].out[k])
                      /\ gens[g].out # <<>>
                      /\ gens[g].out[1].kind = "Single"
                      /\ gens[g].out[1].value = IntVal(metrics[1].value)
               /\ gens[g].start < metrics[1].date
                   => /\ gens[g].out # <<>>
                      /\ IsBeforeFirst(gens[g].out[1])

\* a run of two or more days that started on the first sample's date
StartedOnFirstDate ==
    \E g \in Gens :
        /\ phase = "built" /\ Len(metrics) >= 2
        /\ gens[g].start = metrics[1].date
        /\ Len(gens[g].out) >= 2

(***************************************************************************)
(* C12.  Generators of one collection whose pulls are interleaved each     *)
(* produce the sequence they produce when consumed alone: what a generator *)
(* has yielded is a prefix of its solo run, and once it is finished its    *)
(* values and its end are those of the solo run.                           *)
(***************************************************************************)
IsPrefix(s, t) == Len(s) <= Len(t) /\ SubSeq(t, 1, Len(s)) = s

InterleavedAsAlone ==
    \A g \in Gens :
        gens[g].pc \in {"yielded", "done", "raised"}
            => LET solo == RunGen(metrics, int_outputs,
                                  NewFrame(gens[g].start, gens[g].end))
               IN  /\ IsPrefix(gens[g].out, solo.out)
                   /\ Finished(gens[g])
                          => /\ gens[g].out = solo.out
                             /\ gens[g].pc = solo.pc
                             /\ gens[g].error = solo.error

\* both generators are suspended in the middle of different ranges
TwoRunsInFlight ==
    /\ gens["a"].pc = "yielded" /\ gens["b"].pc = "yielded"
    /\ gens["a"].start # gens["b"].start
    /\ Len(gens["a"].out) >= 2 /\ Len(gens["b"].out) >= 2

(***************************************************************************)
(* C17.  On a list with strictly increasing dates that satisfies the count *)
(* invariant, _find_index does not end with its RuntimeError, so no        *)
(* generator does either.                                                  *)
(***************************************************************************)
FindIndexNeverFails ==
    \A g \in Gens :
        (ValidSeries /\ gens[g].pc # "none")
            => /\ ~FindIndex(metrics, gens[g].start).error
               /\ gens[g].error # "RuntimeError"

\* a generator on a valid series has resolved its start and yielded
StartResolved ==
    \E g \in Gens : ValidSeries /\ gens[g].pc = "yielded"

Slice(m, lo, hi) == SubSeq(m, Max(lo, 0) + 1, (IF hi < Len(m) THEN hi ELSE Len(m) - 1) + 1)

IsRegression(e) == e.kind \in {"Interp", "Extrap"}

WindowBeforeAndFrom ==
    \A g \in Gens :
        IsRegression(gens[g].current_metric)
            => LET e == gens[g].current_metric
               IN  e.data = Slice(metrics, e.index - RadiusOf(e), e.index + RadiusOf(e) - 1)

(***************************************************************************)
(* C20 (amended).  The window around index with radius r is, in ascending  *)
(* date order, the up to r samples ending with the one at index (indices   *)
(* index - r + 1 .. index) followed by the up to r samples strictly after  *)
(* it (indices index + 1 .. index + r), cut at the ends of the list.       *)
(***************************************************************************)
WindowUpToAndAfter ==
    \A g \in Gens :
        IsRegression(gens[g].current_metric)
            => LET e == gens[g].current_metric
               IN  e.data = Slice(metrics, e.index - RadiusOf(e) + 1, e.index + RadiusOf(e))

\* an interpolation around index 0 of five samples: three samples after it
WindowOfFour ==
    \E g \in Gens :
        /\ gens[g].current_metric.kind = "Interp"
        /\ gens[g].current_metric.index = 0
        /\ Len(metrics) = 5
        /\ Len(gens[g].current_metric.data) = 4

(***************************************************************************)
(* C13.  The collection, and with it the sequence get(start, end) yields,  *)
(* does not depend on the order of the constructor's list: the stored list *)
(* is the ascending list of the SET of the samples given, and a generator  *)
(* consumed to the end has produced what get produces on that list.        *)
(***************************************************************************)
ElementsOf(data) == {data[k] : k \in DOMAIN data}

RECURSIVE AscendingOf(_)
\* the samples of a set with pairwise distinct dates, earliest first
AscendingOf(S) ==
    IF S = {} THEN <<>>
    ELSE LET first == CHOOSE x \in S : \A y \in S : x.date <= y.date
         IN  <<first>> \o AscendingOf(S \ {first})

OrderIndependent ==
    phase = "built" =>
        /\ metrics = AscendingOf(ElementsOf(given))
        /\ \A g \in Gens :
               Finished(gens[g]) =>
                   gens[g] = RunGen(AscendingOf(ElementsOf(given)), int_outputs,
                                    NewFrame(gens[g].start, gens[g].end))

\* a list of three or more samples given out of order, and a range over all
\* of it consumed
UnsortedListConsumed ==
    /\ Len(given) >= 3
    /\ \E k \in 1 .. Len(given) - 1 : given[k].date > given[k + 1].date
    /\ gens["a"].pc = "done"
    /\ Len(gens["a"].out) >= Len(given)

(***************************************************************************)
(* C14.  average_metrics returns exactly one sample per date occurring in  *)
(* its input and none for another date, so its dates are pairwise          *)
(* distinct; the value of each is the sum of the values of the input       *)
(* samples of that date divided by their number.                           *)
(***************************************************************************)
DatesOf(samples) == {samples[k].date : k \in DOMAIN samples}

WithDate(samples, d) == {k \in DOMAIN samples : samples[k].date = d}

RECURSIVE SumOver(_, _)
\* the sum of the values of the samples at the positions K
SumOver(samples, K) ==
    IF K = {} THEN 0
    ELSE LET k == CHOOSE j \in K : TRUE
         IN  samples[k].value + SumOver(samples, K \ {k})

AverageByDate ==
    feed.averaged =>
        /\ DatesOf(feed.result) = DatesOf(feed.input)
        /\ Len(feed.result) = Cardinality(DatesOf(feed.input))
        /\ \A j, k \in DOMAIN feed.result :
               j # k => feed.result[j].date # feed.result[k].date
        /\ \A k \in DOMAIN feed.result :
               LET K == WithDate(feed.input, feed.result[k].date)
                   mean == feed.result[k].value
               IN  /\ mean[2] > 0
                   /\ mean[1] * Cardinality(K) = mean[2] * SumOver(feed.input, K)

\* two dates averaged, one of them from two tweets whose mean is no integer
TwoDatesAveraged ==
    /\ feed.averaged
    /\ Len(feed.result) = 2
    /\ \E k \in DOMAIN feed.result :
           /\ Cardinality(WithDate(feed.input, feed.result[k].date)) = 2
           /\ feed.result[k].value[2] = 2

(***************************************************************************)
(* C15.  generate_metrics yields one sample per item, in the order of the  *)
(* items, the k-th with the date and the value the transform returns for   *)
(* the k-th item; the transform has been called with exactly the items     *)
(* whose samples have been pulled, once each and in order; a generator     *)
(* that has ended has yielded a sample for every item.                     *)
(***************************************************************************)
GenerateLazyInOrder ==
    LET g == feed.gen
    IN  g.pc # "none" =>
            /\ Len(g.out) <= Len(g.data)
            /\ \A k \in DOMAIN g.out :
                   /\ g.out[k].date = g.data[k].time_stamp.day
                   /\ g.out[k].value = g.data[k].polarity
            /\ g.applied = [k \in DOMAIN g.out |-> k]
            /\ g.pc = "done" => Len(g.out) = Len(g.data)

\* a generator pulled once or more, with items left
PartlyPulled ==
    /\ feed.gen.pc = "yielded"
    /\ feed.gen.out # <<>>
    /\ Len(feed.gen.out) < Len(feed.gen.data)
    /\ ~feed.averaged

(***************************************************************************)
(* C16.  An estimator of any of the three classes, asked by its owner for  *)
(* a date it does not cover (is_compatible_date false), raises ValueError  *)
(* and returns no value; asked for a date it covers, it returns a value    *)
(* and raises nothing.                                                     *)
(***************************************************************************)
\* the dates of an estimator: the date of the sample; the closed range
\* start .. end; the days after the last (end) or before the first fitted
\* sample
Covers(est, date) ==
    \/ est.kind = "Single" /\ date = est.data[1].date
    \/ est.kind = "Interp" /\ date \in est.start_date .. est.end_date
    \/ est.kind = "Extrap" /\ est.end /\ date > est.data[Len(est.data)].date
    \/ est.kind = "Extrap" /\ ~est.end /\ date < est.data[1].date

IncompatibleDateRaises ==
    direct.pc \in {"returned", "raised"} =>
        /\ Covers(direct.metric, direct.date)
               = IsCompatibleDate(direct.metric, direct.date)
        /\ IF Covers(direct.metric, direct.date)
           THEN /\ direct.pc = "returned"
                /\ direct.error = "none"
                /\ Len(direct.value) = 1
           ELSE /\ direct.pc = "raised"
                /\ direct.error = "ValueError"
                /\ direct.value = <<>>

\* an extrapolation past the end asked for the date of its last sample
ExtrapolationAskedItsMainDate ==
    /\ direct.pc = "raised"
    /\ direct.metric.kind = "Extrap"
    /\ direct.metric.end
    /\ direct.date = direct.metric.main_date

(***************************************************************************)
(* C18.  On a table sorted ascending by code, the binary search for a code *)
(* of the table ends, and returns a location of the table whose code is    *)
(* the argument.                                                           *)
(***************************************************************************)
LookupFindsCode ==
    <>(/\ lookup.pc = "returned"
       /\ lookup.result.code = lookup.code
       /\ \E k \in DOMAIN lookup.locations : lookup.locations[k] = lookup.result)

\* the doctest: "NY" looked up in the table of the states
NewYorkFound ==
    /\ lookup.pc = "returned"
    /\ lookup.locations = STATES
    /\ lookup.code = <<"N", "Y">>
    /\ lookup.result.name = "New York"

(***************************************************************************)
(* C21.  On a collection with a sample, get(start, end) with start <= end  *)
(* emits a first day, the day start, and the estimator that produces it is *)
(* chosen by where start falls: the before-first extrapolation if start is *)
(* earlier than the first sample, the after-last extrapolation if it is    *)
(* later than the last, the sample itself if start is a sample's date, and *)
(* the interpolation bounded by the two neighbouring sample dates if start *)
(* lies between them.                                                      *)
(***************************************************************************)
FirstEstimatorByStart ==
    \A g \in Gens :
        LET f == gens[g]
            est == f.current_metric
            n == Len(metrics)
        IN  (phase = "built" /\ n >= 1 /\ f.start <= f.end
                /\ f.pc \in {"yielded", "done", "raised"})
            => /\ f.out # <<>>
               /\ f.out[1].date = f.start
               /\ (f.pc = "yielded" /\ f.i = 0) =>
                      /\ f.start < metrics[1].date =>
                             /\ est.kind = "Extrap" /\ ~est.end
                             /\ est.main_date = metrics[1].date
                      /\ f.start > metrics[n].date =>
                             /\ est.kind = "Extrap" /\ est.end
                             /\ est.main_date = metrics[n].date
                      /\ \A k \in 1 .. n :
                             f.start = metrics[k].date =>
                                 est.kind = "Single" /\ est.data = <<metrics[k]>>
                      /\ \A k \in 1 .. n - 1 :
                             (metrics[k].date < f.start /\ f.start < metrics[k + 1].date)
                                 => /\ est.kind = "Interp"
                                    /\ est.start_date = metrics[k].date
                                    /\ est.end_date = metrics[k + 1].date

\* a range that starts inside a gap, its first day emitted
FirstDayInterpolated ==
    /\ gens["a"].pc = "yielded"
    /\ gens["a"].i = 0
    /\ gens["a"].current_metric.kind = "Interp"
    /\ Len(metrics) >= 3

(***************************************************************************)
(* C22.  When get advances to a new day and the current estimator is       *)
(* compatible with that day, no new estimator is constructed: _interpolate *)
(* and _extrapolate are not called, so that a regression is fitted once    *)
(* per segment and not once per day.  (The step to the stored sample at    *)
(* the cursor constructs nothing.)                                         *)
(***************************************************************************)
\* generator g has run the statements between a yield and the next loop test
Advanced(g) ==
    /\ gens[g].pc = "yielded"
    /\ gens'[g].pc \in {"yielded", "done", "raised"}
    /\ gens'[g].i = gens[g].i + 1

NoFitWhileCompatible ==
    [][\A g \in Gens :
          (ValidSeries /\ Advanced(g)
              /\ IsCompatibleDate(gens[g].current_metric, gens'[g].current_date))
          => gens'[g].fits = gens[g].fits]_vars

(***************************************************************************)
(* C23.  A day emitted strictly between the dates of two consecutive       *)
(* samples i and i + 1 (the last gap included) is produced by an           *)
(* interpolation whose bounds are the dates of those two samples and whose *)
(* regression window is the window around index i.                         *)
(***************************************************************************)
\* generator g is suspended at the yield of the day current_date
JustEmitted(g) == phase = "built" /\ gens[g].pc = "yielded"

GapDaysInterpolated ==
    \A g \in Gens :
        JustEmitted(g) =>
            \A k \in 1 .. Len(metrics) - 1 :
                (metrics[k].date < gens[g].current_date
                    /\ gens[g].current_date < metrics[k + 1].date)
                => LET est == gens[g].current_metric
                   IN  /\ est.kind = "Interp"
                       /\ est.start_date = metrics[k].date
                       /\ est.end_date = metrics[k + 1].date
                       /\ est.data = Slice(metrics, (k - 1) - interpolation_range + 1,
                                           (k - 1) + interpolation_range)

\* the last gap of a valid series, entered from the sample before it
LastGapEntered ==
    /\ ValidSeries
    /\ JustEmitted("a")
    /\ gens["a"].i >= 1
    /\ gens["a"].current_metric.kind = "Interp"
    /\ gens["a"].current_metric.index = Len(metrics) - 2
    /\ gens["a"].current_date < metrics[Len(metrics)].date

(***************************************************************************)
(* C24.  At an emission the current estimator is an extrapolation only for *)
(* a day outside the range of the sample dates: the after-last one only    *)
(* for days later than the last sample, the before-first one only for days *)
(* earlier than the first.  Every emitted day outside the range is emitted *)
(* by the extrapolation of its side, whose boundary date is the date of    *)
(* the last (the first) sample of the whole series.                        *)
(***************************************************************************)
ExtrapolationOnlyOutside ==
    \A g \in Gens :
        (JustEmitted(g) /\ Len(metrics) >= 1) =>
            LET est == gens[g].current_metric
                day == gens[g].current_date
                first == metrics[1].date
                last == metrics[Len(metrics)].date
            IN  /\ (est.kind = "Extrap" /\ est.end) => day > last
                /\ (est.kind = "Extrap" /\ ~est.end) => day < first
                /\ day > last => /\ est.kind = "Extrap" /\ est.end
                                 /\ est.main_date = last
                /\ day < first => /\ est.kind = "Extrap" /\ ~est.end
                                  /\ est.main_date = first

\* a range that runs through the last sample of a valid series and on
RanPastLastSample ==
    /\ ValidSeries
    /\ JustEmitted("a")
    /\ gens["a"].current_metric.kind = "Extrap"
    /\ gens["a"].current_metric.end
    /\ \E k \in DOMAIN gens["a"].out : gens["a"].out[k].kind = "Single"

(***************************************************************************)
(* C25.  On a collection with more samples than the radii, every window    *)
(* get has a regression fitted to (around a gap index for an               *)
(* interpolation, around index 0 or the last index for an extrapolation)   *)
(* has at least two samples, of pairwise distinct dates, is a contiguous   *)
(* slice of the sample list in its ascending order, and has at most twice  *)
(* the radius samples.                                                     *)
(***************************************************************************)
FittedWindowsSound ==
    \A g \in Gens :
        (ValidSeries /\ IsRegression(gens[g].current_metric)) =>
            LET data == gens[g].current_metric.data
            IN  /\ Len(data) >= 2
                /\ Len(data) <= 2 * RadiusOf(gens[g].current_metric)
                /\ \A j, k \in DOMAIN data : j < k => data[j].date < data[k].date
                /\ \E lo \in 1 .. Len(metrics) :
                       data = SubSeq(metrics, lo, lo + Len(data) - 1)

\* the after-last extrapolation of a valid series: the last three samples
LastThreeFitted ==
    /\ ValidSeries
    /\ JustEmitted("a")
    /\ gens["a"].current_metric.kind = "Extrap"
    /\ gens["a"].current_metric.end
    /\ Len(gens["a"].current_metric.data) = extrapolation_range
    /\ gens["a"].current_metric.data[1] = metrics[Len(metrics) - 2]

(***************************************************************************)
(* C26.  Creating and consuming get sequences leaves the collection as the *)
(* constructor made it: after every call of get and every next() the       *)
(* sorted sample list (order, dates, values) and the integer-output flag   *)
(* are what they were before it.  (The radii are constants of the class.)  *)
(***************************************************************************)
CollectionUnchanged ==
    [][phase = "built" =>
          /\ phase' = "built"
          /\ metrics' = metrics
          /\ int_outputs' = int_outputs]_vars

\* a sequence over a valid series consumed to its end
SequenceConsumed ==
    /\ ValidSeries
    /\ gens["a"].pc = "done"
    /\ Len(gens["a"].out) >= 3
    /\ int_outputs

(***************************************************************************)
(* C27.  Cursor invariant of get on a valid series: at every emission of a *)
(* day d, next_index is the index of the earliest sample whose date is     *)
(* later than d, or is at least the sample count when there is none.       *)
(***************************************************************************)
\* the 0-based indices of the samples dated after day d
LaterThan(d) == {k \in 0 .. Len(metrics) - 1 : At(metrics, k).date > d}

CursorAtNextSample ==
    \A g \in Gens :
        (ValidSeries /\ JustEmitted(g)) =>
            LET later == LaterThan(gens[g].current_date)
            IN  IF later = {} THEN gens[g].next_index >= Len(metrics)
                ELSE /\ gens[g].next_index \in later
                     /\ \A k \in later : gens[g].next_index <= k

(***************************************************************************)
(* C28.  The value emitted for a day does not depend on where the range    *)
(* starts: on a valid series, for s1 <= s2 <= e, the list get(s2, e) is    *)
(* the last (e - s2).days + 1 elements of the list get(s1, e).             *)
(***************************************************************************)
\* list(get(start, end)) on the collection: the frame of the consumed run
ListOfGet(start, end) == RunGen(metrics, int_outputs, NewFrame(start, end))

StartIndependent ==
    \A g \in Gens :
        LET f == gens[g]
        IN  (ValidSeries /\ Finished(f) /\ f.start <= f.end) =>
                \A s2 \in f.start .. f.end :
                    LET k == f.end - s2 + 1
                        n == Len(f.out)
                    IN  /\ n >= k
                        /\ ValuesOf(ListOfGet(s2, f.end))
                               = SubSeq(ValuesOf(f), n - k + 1, n)

(***************************************************************************)
(* C29.  The value emitted for a day does not depend on where the range    *)
(* ends: for s <= e1 <= e2, what get(s, e1) yields is what get(s, e2)      *)
(* yields on its first (e1 - s).days + 1 pulls; get(s, e1) ends normally   *)
(* once get(s, e2) has yielded that many values, and fails with the same   *)
(* error before them if get(s, e2) does.                                   *)
(***************************************************************************)
EndIndependent ==
    \A g \in Gens :
        LET f == gens[g]
        IN  (phase = "built" /\ Finished(f) /\ f.start <= f.end) =>
                \A e1 \in f.start .. f.end :
                    LET k == e1 - f.start + 1
                        n == Len(f.out)
                        other == ListOfGet(f.start, e1)
                    IN  IF n >= k
                        THEN /\ other.pc = "done"
                             /\ ValuesOf(other) = SubSeq(ValuesOf(f), 1, k)
                        ELSE /\ other.pc = "raised"
                             /\ other.error = f.error
                             /\ ValuesOf(other) = ValuesOf(f)

\* a range of three days or more over a valid series, through a gap, consumed
LongRangeConsumed ==
    /\ ValidSeries
    /\ gens["a"].pc = "done"
    /\ gens["a"].end - gens["a"].start >= 2
    /\ Len(gens["a"].out) = gens["a"].end - gens["a"].start + 1
    /\ \E k \in DOMAIN gens["a"].out : gens["a"].out[k].kind = "Interp"

(***************************************************************************)
(* C30.  On a non-empty collection _find_index terminates for every date:  *)
(* an iteration of its loop either returns or leaves upper - lower         *)
(* strictly smaller, lower never moving down and upper never moving up; a  *)
(* started search returns, and with the result get resolves its start to.  *)
(***************************************************************************)
IterationShrinks ==
    (Len(metrics) >= 1 /\ search.pc = "loop" /\ search'.pc = "loop")
        => /\ search'.upper - search'.lower < search.upper - search.lower
           /\ search'.lower >= search.lower
           /\ search'.upper <= search.upper

FindIndexTerminates ==
    /\ [][IterationShrinks]_vars
    /\ (search.pc = "loop" /\ Len(metrics) >= 1) ~> (search.pc = "returned")
    /\ [](search.pc = "returned" =>
             FoundAt(search.index, search.endpoint) = FindIndex(metrics, search.date))

\* a search on a valid series that returned after two iterations or more
SearchedTwice ==
    /\ ValidSeries
    /\ search.pc = "returned"
    /\ search.iterations >= 2

====
